---- MODULE Spec2Model ----
(***************************************************************************)
(* Wire framing of the gringo p2p layer: the message header, the message   *)
(* variants Ping, Pong, GetPeerAddrs, PeerAddrs and PeerError, and the     *)
(* framed transport functions WriteMessage and ReadMessage.                *)
(*                                                                         *)
(* A byte is a number in 0..255, a byte string a sequence of bytes.  An    *)
(* unsigned integer of 32 or 64 bits is held as its numeral: its base-256  *)
(* digits, most significant first, without leading zeros (TLC integers     *)
(* are 32 bits wide and cannot hold the values themselves).  Lengths,      *)
(* counts of bytes, ports and type tags are numbers.                       *)
(***************************************************************************)
EXTENDS Integers, Sequences, FiniteSets, TLC

VARIABLES
    stream,   \* bytes the transport has accepted, in order (both directions of use)
    rpos,     \* number of bytes of stream the reader has consumed
    sent,     \* results of the WriteMessage calls, in order
    recvd,    \* results of the ReadMessage calls, in order
    broken,   \* a write to the transport has failed
    last      \* outcome of the last operation

vars == <<stream, rpos, sent, recvd, broken, last>>

Nil == "nil"

Min(a, b) == IF a < b THEN a ELSE b

(***************************************************************************)
(* Constants of the packages consensus and p2p.                            *)
(***************************************************************************)
MagicCode == <<30, 197>>              \* 0x1e 0xc5
HeaderLen == 11
MaxMsgLen == 20000000
maxStringLength == 4
maxPeerAddresses == 2
msgTypePing == 0
msgTypePong == 1
msgTypeGetPeerAddrs == 2
msgTypePeerAddrs == 3
msgTypeError == 4
IPv4len == 4
IPv6len == 16
defaultBufSize == 4096

(***************************************************************************)
(* encoding/binary, big endian.                                            *)
(***************************************************************************)
RECURSIVE Num(_)
\* the numeral of a number
Num(n) == IF n = 0 THEN <<>> ELSE Append(Num(n \div 256), n % 256)

RECURSIVE Val(_)
\* the number a numeral below 2^31 stands for
Val(v) == IF v = <<>> THEN 0
          ELSE Val(SubSeq(v, 1, Len(v) - 1)) * 256 + v[Len(v)]

\* v is below 2^31
Fits(v) == Len(v) < 4 \/ (Len(v) = 4 /\ v[1] < 128)

\* v > n for a numeral v and a number n
Gt(v, n) == ~Fits(v) \/ Val(v) > n

\* binary.Write(w, binary.BigEndian, v) for an unsigned integer of w bytes:
\* the low w digits of v behind the zeros that fill the width
PutUint(v, w) == [i \in 1..w |-> LET k == i - (w - Len(v))
                                 IN  IF k < 1 THEN 0 ELSE v[k]]

RECURSIVE Uint(_)
\* binary.BigEndian.UintNN(bs)
Uint(bs) == IF bs # <<>> /\ bs[1] = 0 THEN Uint(Tail(bs)) ELSE bs

(***************************************************************************)
(* Readers.  A reader is the data it reads from, the number of bytes       *)
(* already consumed and N, the number of bytes it may still yield          *)
(* (io.LimitedReader.N; the whole of the data for an unlimited reader).    *)
(* The end of the data is the end of the stream: a read that finds fewer   *)
(* bytes than it asks for fails as on a stream the peer has closed.  The   *)
(* steps of a function are written as operators that take the outcome of   *)
(* the step before them.                                                   *)
(***************************************************************************)
Reader(data, pos) == [data |-> data, pos |-> pos, N |-> Len(data)]

LimitReader(r, n) == [data |-> r.data, pos |-> r.pos, N |-> n]

\* io.ReadFull(r, buf) with len(buf) = k: the bytes that are there are
\* consumed also when there are fewer than k of them
ReadFull(r, k) ==
    LET Got(n) ==
            [err |-> IF n = k THEN Nil
                     ELSE IF n = 0 THEN "EOF" ELSE "unexpected EOF",
             bs  |-> SubSeq(r.data, r.pos + 1, r.pos + n),
             r   |-> [r EXCEPT !.pos = @ + n, !.N = @ - n]]
    IN  Got(Min(k, Min(Len(r.data) - r.pos, r.N)))

(***************************************************************************)
(* Header                                                                  *)
(***************************************************************************)
\* a check of the first magic byte only
ValidateMagicFirstByte(h) == h.magic[1] = 30

ValidateMagic(h) == h.magic[1] = 30 /\ h.magic[2] = 197

\* Header.Read: the header it leaves, the error and the reader afterwards
HeaderRead(r) ==
    LET Length(m, t, l) ==
            IF l.err # Nil
            THEN [err |-> l.err, r |-> l.r,
                  h |-> [magic |-> m.bs, Type |-> t.bs[1], Len |-> <<>>]]
            ELSE [err |-> Nil, r |-> l.r,
                  h |-> [magic |-> m.bs, Type |-> t.bs[1], Len |-> Uint(l.bs)]]
        TypeTag(m, t) ==
            IF t.err # Nil
            THEN [err |-> t.err, r |-> t.r,
                  h |-> [magic |-> m.bs, Type |-> 0, Len |-> <<>>]]
            ELSE Length(m, t, ReadFull(t.r, 8))
        Magic(m) ==
            IF m.err # Nil
            THEN [err |-> m.err, r |-> m.r,
                  h |-> [magic |-> m.bs, Type |-> 0, Len |-> <<>>]]
            ELSE IF ~ValidateMagic([magic |-> m.bs])
            THEN [err |-> "invalid magic code", r |-> m.r,
                  h |-> [magic |-> m.bs, Type |-> 0, Len |-> <<>>]]
            ELSE TypeTag(m, ReadFull(m.r, 1))
    IN  Magic(ReadFull(r, 2))

\* a Header.Write that writes Len before Type
HeaderFieldsLenFirst(h) == <<h.magic, PutUint(h.Len, 8), <<h.Type>>>>

\* the bytes Header.Write hands to its writer: magic, Type, Len
HeaderFields(h) == <<h.magic, <<h.Type>>, PutUint(h.Len, 8)>>

(***************************************************************************)
(* Message variants.  A message is a record with its variant in kind and   *)
(* the fields of the Go struct.  Pong embeds Ping.  A string is the        *)
(* sequence of its bytes, an address a record of IP (4 or 16 bytes) and    *)
(* Port.                                                                   *)
(***************************************************************************)
Type(msg) ==
    CASE msg.kind = "Ping"         -> msgTypePing
      [] msg.kind = "Pong"         -> msgTypePong
      [] msg.kind = "GetPeerAddrs" -> msgTypeGetPeerAddrs
      [] msg.kind = "PeerAddrs"    -> msgTypePeerAddrs
      [] msg.kind = "PeerError"    -> msgTypeError

PingBytes(p) == PutUint(p.TotalDifficulty, 8) \o PutUint(p.Height, 8)

PingRead(p, r) ==
    LET Height(p1, h) ==
            IF h.err # Nil THEN [err |-> h.err, msg |-> p1, r |-> h.r]
            ELSE [err |-> Nil, msg |-> [p1 EXCEPT !.Height = Uint(h.bs)], r |-> h.r]
        TotalDifficulty(d) ==
            IF d.err # Nil THEN [err |-> d.err, msg |-> p, r |-> d.r]
            ELSE Height([p EXCEPT !.TotalDifficulty = Uint(d.bs)], ReadFull(d.r, 8))
    IN  TotalDifficulty(ReadFull(r, 8))

GetPeerAddrsBytes(p) == PutUint(p.Capabilities, 4)

GetPeerAddrsRead(p, r) ==
    LET Capabilities(c) ==
            IF c.err # Nil THEN [err |-> c.err, msg |-> p, r |-> c.r]
            ELSE [err |-> Nil, msg |-> [p EXCEPT !.Capabilities = Uint(c.bs)],
                  r |-> c.r]
    IN  Capabilities(ReadFull(r, 4))

PeerErrorBytes(p) == PutUint(p.Code, 4) \o PutUint(Num(Len(p.Message)), 8) \o p.Message

\* a ceiling check that is off by one
StringTooLongOffByOne(messageLen) == Gt(messageLen, maxStringLength + 1)

StringTooLong(messageLen) == Gt(messageLen, maxStringLength)

PeerErrorRead(p, r) ==
    LET Message(p1, b) ==
            IF b.err # Nil THEN [err |-> b.err, msg |-> p1, r |-> b.r]
            ELSE [err |-> Nil, msg |-> [p1 EXCEPT !.Message = b.bs], r |-> b.r]
        MessageLen(p1, l) ==
            IF l.err # Nil THEN [err |-> l.err, msg |-> p1, r |-> l.r]
            ELSE IF StringTooLong(Uint(l.bs))
            THEN [err |-> "invalid messageLen len value", msg |-> p1, r |-> l.r]
            ELSE Message(p1, ReadFull(l.r, Val(Uint(l.bs))))
        Code(c) ==
            IF c.err # Nil THEN [err |-> c.err, msg |-> p, r |-> c.r]
            ELSE MessageLen([p EXCEPT !.Code = Uint(c.bs)], ReadFull(c.r, 8))
    IN  Code(ReadFull(r, 4))

\* the discriminator PeerAddrs.Bytes writes before an address
AddrFlag(ip) == CASE Len(ip) = IPv4len -> 0
                  [] Len(ip) = IPv6len -> 1

AddrBytes(a) == <<AddrFlag(a.IP)>> \o a.IP \o PutUint(Num(a.Port % 65536), 2)

RECURSIVE AddrsBytes(_)
AddrsBytes(peers) == IF peers = <<>> THEN <<>>
                     ELSE AddrBytes(Head(peers)) \o AddrsBytes(Tail(peers))

PeerAddrsBytes(p) == PutUint(Num(Len(p.peers)), 4) \o AddrsBytes(p.peers)

\* a discriminator test with the two families exchanged
AddrLenExchanged(ipFlag) == IF ipFlag = 0 THEN IPv6len ELSE IPv4len

\* the length of the address PeerAddrs.Read reads after the discriminator
AddrLen(ipFlag) == IF ipFlag = 0 THEN IPv4len ELSE IPv6len

TooManyPeers(peersCount) == Gt(peersCount, maxPeerAddresses)

RECURSIVE PeerAddrsLoop(_, _, _, _)
\* the loop of PeerAddrs.Read from i on
PeerAddrsLoop(p, r, i, peersCount) ==
    LET Port(a, t) ==
            IF t.err # Nil THEN [err |-> t.err, msg |-> p, r |-> t.r]
            ELSE PeerAddrsLoop(
                   [p EXCEPT !.peers =
                       Append(@, [IP |-> a.bs, Port |-> Val(Uint(t.bs))])],
                   t.r, i + 1, peersCount)
        Addr(a) ==
            IF a.err # Nil THEN [err |-> a.err, msg |-> p, r |-> a.r]
            ELSE Port(a, ReadFull(a.r, 2))
        Flag(f) ==
            IF f.err # Nil THEN [err |-> f.err, msg |-> p, r |-> f.r]
            ELSE Addr(ReadFull(f.r, AddrLen(f.bs[1])))
    IN  IF i >= peersCount THEN [err |-> Nil, msg |-> p, r |-> r]
        ELSE Flag(ReadFull(r, 1))

PeerAddrsRead(p, r) ==
    LET Count(c) ==
            IF c.err # Nil THEN [err |-> c.err, msg |-> p, r |-> c.r]
            ELSE IF TooManyPeers(Uint(c.bs))
            THEN [err |-> "invalid peersCount value", msg |-> p, r |-> c.r]
            ELSE PeerAddrsLoop(p, c.r, 0, Val(Uint(c.bs)))
    IN  Count(ReadFull(r, 4))

\* Message.Bytes
Bytes(msg) ==
    CASE msg.kind \in {"Ping", "Pong"} -> PingBytes(msg)
      [] msg.kind = "GetPeerAddrs"     -> GetPeerAddrsBytes(msg)
      [] msg.kind = "PeerAddrs"        -> PeerAddrsBytes(msg)
      [] msg.kind = "PeerError"        -> PeerErrorBytes(msg)

\* Message.Read
Read(msg, r) ==
    CASE msg.kind \in {"Ping", "Pong"} -> PingRead(msg, r)
      [] msg.kind = "GetPeerAddrs"     -> GetPeerAddrsRead(msg, r)
      [] msg.kind = "PeerAddrs"        -> PeerAddrsRead(msg, r)
      [] msg.kind = "PeerError"        -> PeerErrorRead(msg, r)

(***************************************************************************)
(* ReadMessage                                                             *)
(***************************************************************************)
TypeMismatch(h, msg) == h.Type # Type(msg)

\* a length check that is off by one
TooBigOffByOne(h) == Gt(h.Len, MaxMsgLen + 1)

TooBig(h) == Gt(h.Len, MaxMsgLen)

\* a ReadMessage that compares the type tag only after the body is decoded
ReadMessageTypeCheckedLate(r, msg) ==
    LET Body(hr, b) ==
            IF TypeMismatch(hr.h, msg)
            THEN [n |-> HeaderLen, err |-> "receive unexpected message type",
                  msg |-> b.msg, r |-> Reader(r.data, b.r.pos), h |-> hr.h,
                  invoked |-> TRUE]
            ELSE [n |-> HeaderLen + Val(hr.h.Len), err |-> b.err, msg |-> b.msg,
                  r |-> Reader(r.data, b.r.pos), h |-> hr.h, invoked |-> TRUE]
        Header(hr) ==
            IF hr.err # Nil
            THEN [n |-> 0, err |-> hr.err, msg |-> msg,
                  r |-> Reader(r.data, hr.r.pos), h |-> hr.h, invoked |-> FALSE]
            ELSE IF TooBig(hr.h)
            THEN [n |-> HeaderLen, err |-> "too big message size", msg |-> msg,
                  r |-> Reader(r.data, hr.r.pos), h |-> hr.h, invoked |-> FALSE]
            ELSE Body(hr, Read(msg, LimitReader(Reader(r.data, hr.r.pos),
                                                Val(hr.h.Len))))
    IN  Header(HeaderRead(LimitReader(r, HeaderLen)))

\* ReadMessage(r, msg): the count and error it returns, the message and the
\* reader afterwards, the header it read and whether msg.Read was invoked
ReadMessage(r, msg) ==
    LET Body(hr, b) ==
            [n |-> HeaderLen + Val(hr.h.Len), err |-> b.err, msg |-> b.msg,
             r |-> Reader(r.data, b.r.pos), h |-> hr.h, invoked |-> TRUE]
        Header(hr) ==
            IF hr.err # Nil
            THEN [n |-> 0, err |-> hr.err, msg |-> msg,
                  r |-> Reader(r.data, hr.r.pos), h |-> hr.h, invoked |-> FALSE]
            ELSE IF TypeMismatch(hr.h, msg)
            THEN [n |-> HeaderLen, err |-> "receive unexpected message type",
                  msg |-> msg, r |-> Reader(r.data, hr.r.pos), h |-> hr.h,
                  invoked |-> FALSE]
            ELSE IF TooBig(hr.h)
            THEN [n |-> HeaderLen, err |-> "too big message size", msg |-> msg,
                  r |-> Reader(r.data, hr.r.pos), h |-> hr.h, invoked |-> FALSE]
            ELSE Body(hr, Read(msg, LimitReader(Reader(r.data, hr.r.pos),
                                                Val(hr.h.Len))))
    IN  Header(HeaderRead(LimitReader(r, HeaderLen)))

(***************************************************************************)
(* Writers.  The underlying stream w is the bytes it has accepted, the     *)
(* number of bytes it will still accept before its Write fails (budget,    *)
(* Unlimited for a stream that never fails) and the arguments of the Write *)
(* calls made on it.                                                       *)
(***************************************************************************)
Unlimited == -1

Stream(budget) == [accepted |-> <<>>, budget |-> budget, calls |-> <<>>]

\* w.Write(p) of the underlying io.Writer
StreamWrite(w, p) ==
    LET Took(k) ==
            [n   |-> k,
             err |-> IF k < Len(p) THEN "write failed" ELSE Nil,
             w   |-> [accepted |-> w.accepted \o SubSeq(p, 1, k),
                      budget   |-> IF w.budget = Unlimited THEN Unlimited
                                   ELSE w.budget - k,
                      calls    |-> Append(w.calls, p)]]
    IN  Took(IF w.budget = Unlimited THEN Len(p) ELSE Min(Len(p), w.budget))

\* a buffered writer too small for a header and a body
NewWriterSmall(w) == [buf |-> <<>>, size |-> 16, err |-> Nil, w |-> w]

\* bufio.NewWriter(w): buf holds the b.n buffered bytes
NewWriter(w) == [buf |-> <<>>, size |-> defaultBufSize, err |-> Nil, w |-> w]

Available(b) == b.size - Len(b.buf)

\* bufio.Writer.Flush
Flush(b) ==
    LET Failed(u, e) ==
            [err |-> e,
             b |-> [b EXCEPT !.buf = SubSeq(b.buf, u.n + 1, Len(b.buf)),
                             !.err = e, !.w = u.w]]
        Wrote(u) ==
            IF u.n < Len(b.buf) /\ u.err = Nil THEN Failed(u, "short write")
            ELSE IF u.err # Nil THEN Failed(u, u.err)
            ELSE [err |-> Nil, b |-> [b EXCEPT !.buf = <<>>, !.w = u.w]]
    IN  IF b.err # Nil THEN [err |-> b.err, b |-> b]
        ELSE IF Len(b.buf) = 0 THEN [err |-> Nil, b |-> b]
        ELSE Wrote(StreamWrite(b.w, b.buf))

RECURSIVE BufWriteLoop(_, _, _)
\* bufio.Writer.Write(p) with nn bytes of the call already taken
BufWriteLoop(b, p, nn) ==
    LET Direct(u) ==
            BufWriteLoop([b EXCEPT !.w = u.w, !.err = u.err],
                         SubSeq(p, u.n + 1, Len(p)), nn + u.n)
        Fill(n) ==
            BufWriteLoop(Flush([b EXCEPT !.buf = @ \o SubSeq(p, 1, n)]).b,
                         SubSeq(p, n + 1, Len(p)), nn + n)
    IN  IF Len(p) > Available(b) /\ b.err = Nil
        THEN IF Len(b.buf) = 0 THEN Direct(StreamWrite(b.w, p))
             ELSE Fill(Available(b))
        ELSE IF b.err # Nil THEN [n |-> nn, err |-> b.err, b |-> b]
        ELSE [n |-> nn + Len(p), err |-> Nil, b |-> [b EXCEPT !.buf = @ \o p]]

BufWrite(b, p) == BufWriteLoop(b, p, 0)

RECURSIVE WriteFields(_, _)
\* the writes of Header.Write in order, up to the first that fails
WriteFields(wr, fields) ==
    LET Field(m) ==
            IF m.err # Nil THEN [err |-> m.err, b |-> m.b]
            ELSE WriteFields(m.b, Tail(fields))
    IN  IF fields = <<>> THEN [err |-> Nil, b |-> wr]
        ELSE Field(BufWrite(wr, Head(fields)))

\* Header.Write(wr) on a buffered writer
HeaderWrite(h, wr) == WriteFields(wr, HeaderFields(h))

(***************************************************************************)
(* WriteMessage                                                            *)
(***************************************************************************)
\* WriteMessage(w, msg): the count and error it returns and the stream afterwards
WriteMessage(w, msg) ==
    LET Flushed(d, f) == [n |-> d.n + HeaderLen, err |-> f.err, w |-> f.b.w]
        Body(d) ==
            IF d.err # Nil
            THEN [n |-> d.n + HeaderLen, err |-> d.err, w |-> d.b.w]
            ELSE Flushed(d, Flush(d.b))
        Header(data, hw) ==
            IF hw.err # Nil THEN [n |-> 0, err |-> hw.err, w |-> hw.b.w]
            ELSE Body(BufWrite(hw.b, data))
        Data(data) ==
            Header(data,
                   HeaderWrite([magic |-> MagicCode, Type |-> Type(msg),
                                Len |-> Num(Len(data))],
                               NewWriter(w)))
    IN  Data(Bytes(msg))

(***************************************************************************)
(* Bounds and inputs                                                       *)
(***************************************************************************)
MaxWrites == 2      \* WriteMessage calls on one stream
MaxFrames == 1      \* frames a remote peer puts on the stream
MaxReads  == 2      \* ReadMessage calls on one stream

Empty(kind) ==
    CASE kind \in {"Ping", "Pong"} -> [kind |-> kind, TotalDifficulty |-> <<>>, Height |-> <<>>]
      [] kind = "GetPeerAddrs"     -> [kind |-> kind, Capabilities |-> <<>>]
      [] kind = "PeerAddrs"        -> [kind |-> kind, peers |-> <<>>]
      [] kind = "PeerError"        -> [kind |-> kind, Code |-> <<>>, Message |-> <<>>]

Kinds == {"Ping", "Pong", "GetPeerAddrs", "PeerAddrs", "PeerError"}

Text(n) == [i \in 1..n |-> 97 + (i % 3)]

Addr4 == [IP |-> <<127, 0, 0, 1>>, Port |-> 8080]
Addr6 == [IP |-> [i \in 1..16 |-> IF i = 16 THEN 1 ELSE 0], Port |-> 65535]

RECURSIVE SeqsUpTo(_, _)
\* the sequences over S of length at most n
SeqsUpTo(S, n) ==
    IF n = 0 THEN {<<>>}
    ELSE LET T == SeqsUpTo(S, n - 1) IN T \cup {Append(t, x) : t \in T, x \in S}

MaxUint32 == [i \in 1..4 |-> 255]
MaxUint64 == [i \in 1..8 |-> 255]

\* valid values of the variants: every field within its wire width, a
\* PeerError message of at most maxStringLength bytes, at most
\* maxPeerAddresses addresses of 4 or 16 bytes with a port in 0..65535
ValidMsgs ==
    [kind : {"Ping"}, TotalDifficulty : {Num(0), Num(1000), MaxUint64},
                      Height : {Num(42), Num(65536)}]
    \cup [kind : {"Pong"}, TotalDifficulty : {Num(1)}, Height : {Num(0), MaxUint64}]
    \cup [kind : {"GetPeerAddrs"}, Capabilities : {Num(0), Num(15), MaxUint32}]
    \cup [kind : {"PeerError"}, Code : {Num(0), Num(258)},
          Message : {<<>>, <<98, 97, 100>>, Text(maxStringLength)}]
    \cup [kind : {"PeerAddrs"}, peers : SeqsUpTo({Addr4, Addr6}, maxPeerAddresses)]

\* messages whose encoding passes the ceilings of the decoder or the
\* capacity of the buffered writer
LargeMsgs ==
    [kind : {"PeerError"}, Code : {Num(7)},
     Message : {Text(maxStringLength + 1),
                Text(defaultBufSize - HeaderLen - 12),
                Text(defaultBufSize - HeaderLen - 11),
                Text(2 * defaultBufSize - HeaderLen - 11)}]
    \cup [kind : {"PeerAddrs"}, peers : {[i \in 1..(maxPeerAddresses + 1) |-> Addr4]}]

WriteMsgs ==
    LargeMsgs \cup
    {m \in ValidMsgs :
        \/ m.kind = "Ping" /\ m.TotalDifficulty = Num(1000)
        \/ m.kind = "GetPeerAddrs" /\ m.Capabilities = Num(15)
        \/ m.kind = "PeerAddrs" /\ Len(m.peers) = 1}

Budgets == {Unlimited, 0, 1, 5, HeaderLen, HeaderLen + 1, 26,
            defaultBufSize, defaultBufSize + 1}

\* the messages a decoder is handed: empty ones and ones that hold values
Targets ==
    {Empty(k) : k \in Kinds}
    \cup {[kind |-> "PeerError", Code |-> Num(1), Message |-> <<120>>],
          [kind |-> "PeerAddrs", peers |-> <<Addr4>>]}

Hdr(magic, type, len) == magic \o <<type>> \o PutUint(len, 8)

Frame(msg) == Hdr(MagicCode, Type(msg), Num(Len(Bytes(msg)))) \o Bytes(msg)

\* bodies that are not the encoding of a valid value
CraftedBodies ==
    {  \* a Ping body followed by four more bytes
       PutUint(Num(1000), 8) \o PutUint(Num(42), 8) \o <<1, 2, 3, 4>>,
       \* a Ping body cut after 12 bytes
       PutUint(Num(1000), 8) \o <<0, 0, 0, 0>>,
       \* PeerError: message length one above the ceiling, message present
       PutUint(Num(3), 4) \o PutUint(Num(maxStringLength + 1), 8) \o Text(maxStringLength + 1),
       \* PeerError: a huge message length
       PutUint(Num(3), 4) \o PutUint(MaxUint64, 8) \o Text(2),
       \* PeerError: message shorter than declared
       PutUint(Num(3), 4) \o PutUint(Num(3), 8) \o Text(2),
       \* PeerAddrs: count one above the ceiling, entries present
       PutUint(Num(maxPeerAddresses + 1), 4)
          \o AddrsBytes([i \in 1..(maxPeerAddresses + 1) |-> Addr4]),
       \* PeerAddrs: a huge count
       PutUint(MaxUint32, 4) \o AddrBytes(Addr4),
       \* PeerAddrs: two entries declared, the second one cut
       PutUint(Num(2), 4) \o AddrBytes(Addr4) \o <<0, 10, 0>>,
       \* PeerAddrs: a discriminator that is neither 0 nor 1
       PutUint(Num(1), 4) \o <<7>> \o Addr6.IP \o <<0, 80>>,
       \* GetPeerAddrs cut after two bytes
       <<0, 1>> }

Bodies == {Bytes(m) : m \in ValidMsgs} \cup CraftedBodies

\* what a remote peer may put on the stream
Frames ==
    {Frame(m) : m \in {v \in ValidMsgs :
                          \/ v.kind = "Ping" /\ v.TotalDifficulty = MaxUint64
                                             /\ v.Height = Num(42)
                          \/ v.kind = "Pong" /\ v.Height = Num(0)
                          \/ v.kind = "GetPeerAddrs" /\ v.Capabilities = Num(15)
                          \/ v.kind = "PeerError" /\ v.Code = Num(258)
                                                  /\ Len(v.Message) = 3
                          \/ v.kind = "PeerAddrs" /\ v.peers \in {<<>>, <<Addr4, Addr6>>}}}
    \cup {Hdr(MagicCode, Type(Empty(k)), Num(Len(b))) \o b :
             k \in {"Ping", "PeerError", "PeerAddrs"},
             b \in {c \in CraftedBodies : Len(c) >= 12}}
    \cup {Hdr(MagicCode, Type(Empty(k)), l) \o PutUint(Num(1000), 8) \o PutUint(Num(42), 8) :
             k \in {"Ping", "PeerAddrs"},
             l \in {Num(8), Num(MaxMsgLen), Num(MaxMsgLen + 1), MaxUint64}}
    \cup {Hdr(MagicCode, 9, Num(4)), Hdr(MagicCode, msgTypeGetPeerAddrs, Num(4))}
    \cup {Hdr(mg, msgTypePing, Num(16)) \o PutUint(Num(1000), 8) \o PutUint(Num(42), 8) :
             mg \in {<<30, 0>>, <<0, 197>>}}
    \cup {<<30, 197, 0, 0, 0>>}

(***************************************************************************)
(* Operations                                                              *)
(***************************************************************************)
Init ==
    /\ stream = <<>>
    /\ rpos = 0
    /\ sent = <<>>
    /\ recvd = <<>>
    /\ broken = FALSE
    /\ last = [op |-> "none"]

\* a WriteMessage call on a stream that fails after budget more bytes
DoWriteMessage(msg, budget) ==
    /\ ~broken
    /\ Len(sent) < MaxWrites
    /\ LET Returned(res) ==
               /\ stream' = stream \o res.w.accepted
               /\ sent' = Append(sent, [msg |-> msg, n |-> res.n, err |-> res.err])
               /\ broken' = (res.err # Nil)
               /\ last' = [op |-> "WriteMessage", msg |-> msg, n |-> res.n,
                           err |-> res.err, calls |-> res.w.calls,
                           accepted |-> res.w.accepted]
       IN  Returned(WriteMessage(Stream(budget), msg))
    /\ UNCHANGED <<rpos, recvd>>

\* a ReadMessage call that hands msg to be filled
DoReadMessage(msg) ==
    /\ Len(recvd) < MaxReads
    /\ LET Returned(res) ==
               /\ rpos' = res.r.pos
               /\ recvd' = Append(recvd, [msg |-> res.msg, n |-> res.n, err |-> res.err])
               /\ last' = [op |-> "ReadMessage", at |-> rpos, before |-> msg,
                           after |-> res.msg, n |-> res.n, err |-> res.err,
                           consumed |-> res.r.pos - rpos, h |-> res.h,
                           invoked |-> res.invoked]
       IN  Returned(ReadMessage(Reader(stream, rpos), msg))
    /\ UNCHANGED <<stream, sent, broken>>

\* the remote peer puts a frame on the stream
PeerSends(frame) ==
    /\ Len(sent) < MaxFrames
    /\ stream' = stream \o frame
    /\ sent' = Append(sent, [frame |-> frame])
    /\ last' = [op |-> "PeerSends", frame |-> frame]
    /\ UNCHANGED <<rpos, recvd, broken>>

\* msg.Read(r) on a reader that holds exactly data
DoRead(msg, data) ==
    /\ LET Returned(res) ==
               last' = [op |-> "Read", before |-> msg, after |-> res.msg,
                        err |-> res.err, consumed |-> res.r.pos, data |-> data]
       IN  Returned(Read(msg, Reader(data, 0)))
    /\ UNCHANGED <<stream, rpos, sent, recvd, broken>>

\* one writer writes valid messages to a reliable stream
WriteValid == \E m \in ValidMsgs : DoWriteMessage(m, Unlimited)

\* one reader reads them, each into an empty message of the variant written
ReadExpected ==
    /\ Len(recvd) < Len(sent)
    /\ DoReadMessage(Empty(sent[Len(recvd) + 1].msg.kind))

WriteAny == \E m \in WriteMsgs, b \in Budgets : DoWriteMessage(m, b)

Inject == \E f \in Frames : PeerSends(f)

ReadAny == \E m \in Targets : DoReadMessage(m)

Decode == \E m \in Targets, d \in Bodies : DoRead(m, d)

\* a reader facing an arbitrary peer
Next == Inject \/ ReadAny
Spec == Init /\ [][Next]_vars

\* a writer and a reader on one reliable ordered stream
NextStream == WriteValid \/ ReadExpected
SpecStream == Init /\ [][NextStream]_vars

\* a writer on a stream that may fail
NextWrite == WriteAny
SpecWrite == Init /\ [][NextWrite]_vars

\* the decoders of the variants on their own
NextCodec == Decode
SpecCodec == Init /\ [][NextCodec]_vars

(***************************************************************************)
(* Properties                                                              *)
(***************************************************************************)
\* the width of an encoded header: magic, type and length
HeaderWidth == Len(Hdr(MagicCode, 0, <<>>))

\* the bytes of the stream from where the last ReadMessage started
Unread == SubSeq(stream, last.at + 1, Len(stream))

\* the last ReadMessage found a whole header with the magic code
SawHeader ==
    /\ last.op = "ReadMessage"
    /\ Len(Unread) >= HeaderWidth
    /\ SubSeq(Unread, 1, 2) = MagicCode

\* C1: on one reliable ordered stream with one writer and one reader, the
\* i-th ReadMessage into an empty message of the variant written by the i-th
\* WriteMessage succeeds, yields the value written and returns the byte
\* count the i-th WriteMessage returned.
C1_StreamRoundTrip ==
    \A i \in 1..Len(recvd) :
        /\ sent[i].err = Nil
        /\ recvd[i].err = Nil
        /\ recvd[i].msg = sent[i].msg
        /\ recvd[i].n = sent[i].n
        /\ recvd[i].n = HeaderWidth + Len(Bytes(sent[i].msg))

C1_Witness ==
    /\ Len(recvd) >= 2
    /\ recvd[1].msg.kind = "PeerError"
    /\ recvd[1].msg.Message = Text(maxStringLength)
    /\ recvd[2].msg.kind = "PeerAddrs"
    /\ recvd[2].msg.peers = <<Addr6, Addr4>>
    /\ rpos = Len(stream)

\* C2: Read on an empty message of a variant over a reader that holds
\* exactly the Bytes of a valid value v of that variant succeeds and leaves
\* a value equal to v.
C2_RoundTrip ==
    last.op = "Read" =>
        \A v \in ValidMsgs :
            (/\ v.kind = last.before.kind
             /\ last.before = Empty(v.kind)
             /\ last.data = Bytes(v))
            => (last.err = Nil /\ last.after = v /\ last.consumed = Len(last.data))

C2_Witness ==
    /\ last.op = "Read"
    /\ last.before = Empty("PeerAddrs")
    /\ last.err = Nil
    /\ last.after.peers = <<Addr4, Addr6>>
    /\ last.data = Bytes(last.after)

\* C3: whenever ReadMessage returns without error it has consumed exactly
\* header width + header.Len bytes, the count it returns.
C3_ConsumesDeclaredLength ==
    (last.op = "ReadMessage" /\ last.err = Nil) =>
        (/\ last.n = HeaderWidth + Val(last.h.Len)
         /\ last.consumed = last.n)

\* C4: a header with the magic code, the expected type tag and a length
\* above MaxMsgLen makes ReadMessage fail without invoking the message's
\* Read, the stream position being exactly the header width past the start.
C4_OversizedRejected ==
    (/\ SawHeader
     /\ Unread[3] = Type(last.before)
     /\ Gt(Uint(SubSeq(Unread, 4, 11)), MaxMsgLen))
    => (/\ last.err # Nil
        /\ ~last.invoked
        /\ last.consumed = HeaderWidth
        /\ rpos = last.at + HeaderWidth
        /\ last.after = last.before)

C4_Witness ==
    /\ SawHeader
    /\ last.h.Len = Num(MaxMsgLen + 1)
    /\ last.h.Type = Type(last.before)
    /\ last.err = "too big message size"
    /\ Len(stream) > rpos

\* C5: a header whose type tag differs from the expected message's Type
\* makes ReadMessage fail with the type-mismatch error, the expected message
\* unmodified and exactly the header bytes consumed, whatever the length.
C5_TypeMismatch ==
    (SawHeader /\ Unread[3] # Type(last.before))
    => (/\ last.err = "receive unexpected message type"
        /\ last.after = last.before
        /\ last.consumed = HeaderWidth
        /\ ~last.invoked)

C5_Witness ==
    /\ SawHeader
    /\ Unread[3] = msgTypePing
    /\ last.before.kind = "Pong"
    /\ last.err = "receive unexpected message type"
    /\ Len(Unread) = HeaderWidth + 16

\* C6: when the first two bytes of the stream differ from the magic code the
\* header decode fails with the invalid-magic error after consuming exactly
\* those 2 bytes, and ReadMessage fails without invoking the decoder.
C6_BadMagic ==
    (/\ last.op = "ReadMessage"
     /\ Len(Unread) >= 2
     /\ SubSeq(Unread, 1, 2) # MagicCode)
    => (/\ last.err = "invalid magic code"
        /\ last.consumed = 2
        /\ ~last.invoked
        /\ last.n = 0
        /\ last.after = last.before)

C6_Witness ==
    /\ last.op = "ReadMessage"
    /\ Len(Unread) >= HeaderWidth
    /\ Unread[1] = MagicCode[1]
    /\ Unread[2] # MagicCode[2]
    /\ last.err = "invalid magic code"

\* C7: whenever ReadMessage or a variant's Read fails, the message supplied
\* by the caller holds the field values it held before the call.
C7_AllOrNothing ==
    (last.op \in {"ReadMessage", "Read"} /\ last.err # Nil) =>
        last.after = last.before

\* C8: PeerError.Read with a message length above maxStringLength fails
\* having consumed exactly the 4 code bytes and the 8 length bytes, and
\* PeerAddrs.Read with a count above maxPeerAddresses fails having consumed
\* exactly the 4 count bytes and read no address; a prefix equal to the
\* ceiling is accepted.
C8_PrefixCeilings ==
    last.op = "Read" =>
        /\ (last.before.kind = "PeerError" /\ Len(last.data) >= 12) =>
              LET messageLen == Uint(SubSeq(last.data, 5, 12))
              IN  /\ Gt(messageLen, maxStringLength) =>
                        (last.err # Nil /\ last.consumed = 12
                            /\ last.after.Message = last.before.Message)
                  /\ (/\ messageLen = Num(maxStringLength)
                      /\ Len(last.data) >= 12 + maxStringLength) =>
                        (/\ last.err = Nil
                         /\ last.after.Message =
                               SubSeq(last.data, 13, 12 + maxStringLength))
        /\ (last.before.kind = "PeerAddrs" /\ Len(last.data) >= 4) =>
              LET peersCount == Uint(SubSeq(last.data, 1, 4))
              IN  /\ Gt(peersCount, maxPeerAddresses) =>
                        (last.err # Nil /\ last.consumed = 4
                            /\ last.after = last.before)
                  /\ peersCount = Num(maxPeerAddresses) =>
                        last.err # "invalid peersCount value"

C8_Witness ==
    /\ last.op = "Read"
    /\ last.before.kind = "PeerError"
    /\ Len(last.data) = 12 + maxStringLength + 1
    /\ Uint(SubSeq(last.data, 5, 12)) = Num(maxStringLength + 1)
    /\ last.err = "invalid messageLen len value"
    /\ last.consumed = 12

\* C9: WriteMessage returns header size + body size and no error exactly
\* when the stream has accepted all header and body bytes; when a write to
\* the stream fails it returns an error and the number of bytes actually
\* written to the stream so far.
C9_WriteCount ==
    last.op = "WriteMessage" =>
        /\ (last.err = Nil) <=> (last.accepted = Frame(last.msg))
        /\ last.err = Nil => last.n = HeaderWidth + Len(Bytes(last.msg))
        /\ last.err # Nil => last.n = Len(last.accepted)

\* C10 as stated: for every message the underlying stream receives header
\* and body in a single write, issued by the flush at the end.
C10_SingleWrite ==
    last.op = "WriteMessage" => last.calls = <<Frame(last.msg)>>

\* C10 as amended: for every message whose header and body together are at
\* most the 4096 bytes the buffered writer holds, WriteMessage makes exactly
\* one write on the underlying stream, the flush at the end, and its
\* argument is the header followed by the whole body.
C10_SingleWriteWhenBuffered ==
    (last.op = "WriteMessage" /\ Len(Frame(last.msg)) <= 4096) =>
        last.calls = <<Frame(last.msg)>>

C10_Witness ==
    /\ last.op = "WriteMessage"
    /\ Len(Frame(last.msg)) = 4096
    /\ last.calls = <<Frame(last.msg)>>
    /\ last.accepted = Frame(last.msg)
    /\ last.err = Nil

====
